---- MODULE Spec2Model ----
(***************************************************************************)
(* Model of the NixieClock firmware (Firmware/src/main.cpp, pins.h,        *)
(* pins_IN12.h, VARIANT 12).                                               *)
(*                                                                         *)
(* A uint64_t bit pattern is modelled as the set of its set bit positions  *)
(* (a subset of 0..63): x |= 1ull << k is x \cup {k}, x & y is x \cap y    *)
(* and ~x is (0..63) \ x.  Bytes and small counters are integers.          *)
(***************************************************************************)
EXTENDS Integers, Sequences, FiniteSets, TLC

VARIABLES
    pc,                   \* position of the control flow
    tzInfo,               \* TzInfo tzInfo (global, zero-initialised)
    displaySerialStream,  \* uint64_t displaySerialStream
    digitBrightness,      \* uint8_t digitBrightness
    ledBrightness,        \* uint8_t ledBrightness
    digitPwmCounter,      \* static in updateDisplay()
    ledPwmCounter,        \* static in updateDisplay()
    currentDot,           \* static in displayPasscode()
    direction,            \* static in displayPasscode()
    apPasscode,           \* String apPasscode, a local of setup(); <<>> outside its life
    tickerAttached,       \* connectingTicker is attached
    tickerFires,          \* number of timer callbacks run since boot
    wifiConnected,        \* WiFi.status() == WL_CONNECTED
    testStep,             \* iterations of displayTest() done (0..20)
    lastUpdate,           \* static in loop()
    currentTime,          \* local of loop(): the value now() returned last
    timeArg,              \* tmElements_t passed to the last setDisplay()
    dotsArg,              \* dots passed to the last setDisplay()
    ntpTimeZone,          \* arguments of the last NTP.setTimeZone()
    answer,               \* what the last getTzInfo() call was answered
    renewed,              \* a getTzInfo() call returned true since boot
    delayMs,              \* argument of the delay() the control flow sits in
    latchPin,             \* level of the latch line
    shiftReg,             \* the 48 stages of the cascaded shift registers
    outputs,              \* the latched outputs of the chain
    chip,                 \* loop variable of the shift-out loop
    bitsLeft,             \* bits of the current byte still to clock out
    maskedStream,         \* local of updateDisplay()
    clockPulses,          \* clock pulses since the latch went low
    latchRises,           \* rising latch edges in the current emission
    log,                  \* events of the handler that ran last
    nTicks,               \* updateDisplay() calls observed (PWM window)
    nDigitLit,            \* of these, with the digit lines of the frame lit
    nLedLit,              \* of these, with the colon lines of the frame lit
    nDigitDark,           \* of these, with every digit line dark
    nLedDark              \* of these, with both colon lines dark

vars == <<pc, tzInfo, displaySerialStream, digitBrightness, ledBrightness,
          digitPwmCounter, ledPwmCounter, currentDot, direction, apPasscode,
          tickerAttached, tickerFires, wifiConnected, testStep, lastUpdate,
          currentTime, timeArg, dotsArg, ntpTimeZone, answer, renewed, delayMs,
          latchPin, shiftReg, outputs, chip, bitsLeft, maskedStream,
          clockPulses, latchRises, log, nTicks, nDigitLit, nLedLit, nDigitDark,
          nLedDark>>

(***************************************************************************)
(* pins.h                                                                  *)
(***************************************************************************)
P2B(CHIP, PIN) == ((CHIP - 1) * 8) + PIN

numChips == 6

numDigits == 4

U64 == 0..63

\* the output lines the chain of numChips registers has
OutputLines == 0..(numChips * 8 - 1)

(***************************************************************************)
(* pins_IN12.h                                                             *)
(***************************************************************************)
digitsRows_dup ==
    << <<P2B(1, 5), P2B(1, 3), P2B(1, 2), P2B(1, 1), P2B(1, 0), P2B(1, 3), P2B(1, 6), P2B(2, 6), P2B(2, 5), P2B(2, 4)>>,
       <<P2B(3, 4), P2B(2, 3), P2B(2, 2), P2B(2, 1), P2B(2, 7), P2B(2, 0), P2B(3, 0), P2B(3, 1), P2B(3, 2), P2B(3, 3)>>,
       <<P2B(5, 7), P2B(4, 4), P2B(4, 3), P2B(4, 5), P2B(4, 2), P2B(4, 6), P2B(4, 1), P2B(4, 7), P2B(4, 0), P2B(5, 1)>>,
       <<P2B(6, 0), P2B(5, 4), P2B(5, 3), P2B(5, 5), P2B(5, 6), P2B(5, 2), P2B(6, 5), P2B(6, 3), P2B(6, 2), P2B(6, 1)>> >>

\* the rows of digitsPinmap as written in the header
digitsRows ==
    << <<P2B(1, 5), P2B(1, 3), P2B(1, 2), P2B(1, 1), P2B(1, 0), P2B(1, 7), P2B(1, 6), P2B(2, 6), P2B(2, 5), P2B(2, 4)>>,
       <<P2B(3, 4), P2B(2, 3), P2B(2, 2), P2B(2, 1), P2B(2, 7), P2B(2, 0), P2B(3, 0), P2B(3, 1), P2B(3, 2), P2B(3, 3)>>,
       <<P2B(5, 7), P2B(4, 4), P2B(4, 3), P2B(4, 5), P2B(4, 2), P2B(4, 6), P2B(4, 1), P2B(4, 7), P2B(4, 0), P2B(5, 1)>>,
       <<P2B(6, 0), P2B(5, 4), P2B(5, 3), P2B(5, 5), P2B(5, 6), P2B(5, 2), P2B(6, 5), P2B(6, 3), P2B(6, 2), P2B(6, 1)>> >>

\* digitsPinmap[digit][number to display], both indices from 0 as in C
digitsPinmap == [d \in 0..(numDigits - 1) |-> [n \in 0..9 |-> digitsRows[d + 1][n + 1]]]

ledsPinmap == [i \in 0..1 |-> <<P2B(3, 6), P2B(3, 7)>>[i + 1]]

dotsPinmap == [i \in 0..(numDigits - 1) |-> <<P2B(1, 4), P2B(3, 5), P2B(5, 0), P2B(6, 4)>>[i + 1]]

ledsMask == {ledsPinmap[0]} \cup {ledsPinmap[1]}

dotsMask == {dotsPinmap[0]} \cup {dotsPinmap[1]} \cup {dotsPinmap[2]} \cup {dotsPinmap[3]}

digitsMask == U64 \ (ledsMask \cup dotsMask)

(***************************************************************************)
(* main.cpp: constants                                                     *)
(***************************************************************************)
maxBrightness == 50

lowBrightness == (maxBrightness \div 10) * 2

beginLowBrightnessHour == 21

endLowBrightnessHour == 6

\* delay(5000) before ESP.restart()
RebootDelayMs == 5000

\* C integer division and remainder (truncating towards zero)
CDiv(a, b) == IF a >= 0 THEN a \div b ELSE -((-a) \div b)

CMod(a, b) == a - b * CDiv(a, b)

\* breakTime(t, tm) of TimeLib: the fields the firmware reads
breakTime(t) == [Second |-> t % 60, Minute |-> (t \div 60) % 60, Hour |-> (t \div 3600) % 24]

(***************************************************************************)
(* main.cpp: setDisplay(), the frame it writes to displaySerialStream      *)
(***************************************************************************)
\* 1 << n for n in 0..7
Pow2(n) == <<1, 2, 4, 8, 16, 32, 64, 128>>[n + 1]

\* (dots >> dot) & 0b1
DotBit(dots, dot) == (dots \div Pow2(dot)) % 2

setDisplayStream_oneLed(time, dots) ==
    LET s0 == {}
        s1 == s0 \cup {digitsPinmap[0][time.Hour \div 10]}
        s2 == s1 \cup {digitsPinmap[1][time.Hour % 10]}
        s3 == s2 \cup {digitsPinmap[2][time.Minute \div 10]}
        s4 == s3 \cup {digitsPinmap[3][time.Minute % 10]}
        s5 == s4 \cup {dotsPinmap[dot] : dot \in {d \in 0..(numDigits - 1) : DotBit(dots, d) = 1}}
    IN  IF time.Second % 2 # 0 THEN (s5 \cup {ledsPinmap[0]}) \cup {ledsPinmap[0]} ELSE s5

setDisplayStream_swapped(time, dots) ==
    LET s0 == {}
        s1 == s0 \cup {digitsPinmap[0][time.Hour % 10]}
        s2 == s1 \cup {digitsPinmap[1][time.Hour \div 10]}
        s3 == s2 \cup {digitsPinmap[2][time.Minute \div 10]}
        s4 == s3 \cup {digitsPinmap[3][time.Minute % 10]}
        s5 == s4 \cup {dotsPinmap[dot] : dot \in {d \in 0..(numDigits - 1) : DotBit(dots, d) = 1}}
    IN  IF time.Second % 2 # 0 THEN (s5 \cup {ledsPinmap[0]}) \cup {ledsPinmap[1]} ELSE s5

setDisplayStream(time, dots) ==
    LET s0 == {}
        s1 == s0 \cup {digitsPinmap[0][time.Hour \div 10]}
        s2 == s1 \cup {digitsPinmap[1][time.Hour % 10]}
        s3 == s2 \cup {digitsPinmap[2][time.Minute \div 10]}
        s4 == s3 \cup {digitsPinmap[3][time.Minute % 10]}
        s5 == s4 \cup {dotsPinmap[dot] : dot \in {d \in 0..(numDigits - 1) : DotBit(dots, d) = 1}}
    IN  IF time.Second % 2 # 0 THEN (s5 \cup {ledsPinmap[0]}) \cup {ledsPinmap[1]} ELSE s5

(***************************************************************************)
(* main.cpp: updateDisplay()                                               *)
(***************************************************************************)
\* the stream to shift out this cycle: the digits are masked out when their
\* counter reaches the brightness level, and so is the colon
MaskedStream(stream, dB, lB, dC, lC) ==
    LET m1 == IF dC >= dB THEN stream \cap (U64 \ digitsMask) ELSE stream
    IN  IF lC >= lB THEN m1 \cap (U64 \ ledsMask) ELSE m1

NextCounter_short(c) == (c + 1) % maxBrightness

NextCounter_byteWrap(c) == (c + 1) % 256

\* counter = (counter + 1) % (maxBrightness + 1)
NextCounter(c) == (c + 1) % (maxBrightness + 1)

\* uint8_t dataByte = (maskedStream >> (chip * 8)) & 0xFF, as the set of its
\* set bit positions 0..7
DataByte(stream, c) == {b - c * 8 : b \in {x \in stream : x >= c * 8 /\ x <= c * 8 + 7}}

SendIndex_lsbFirst(p) == p

\* shiftOut(.., MSBFIRST, val) writes !!(val & (1 << (7 - i))) as its i-th bit:
\* bit p of the byte is the bit written as number 7 - p
SendIndex(p) == 7 - p

\* the bit shiftOut() writes as number `sent` (0..7) of the byte
BitToSend(byte, sent) == IF \E p \in byte : SendIndex(p) = sent THEN 1 ELSE 0

\* one clock pulse: the data line enters stage 0 (chip 1, pin 0) and every
\* stage moves on by one; the last stage of the chain falls off
ClockIn(reg, bit) ==
    {k + 1 : k \in (reg \ {numChips * 8 - 1})} \cup (IF bit = 1 THEN {0} ELSE {})

\* shiftOut() of one byte: eight clock pulses.  The bit written as number
\* `sent` is moved on by the 7 - sent pulses after it, and what the chain held
\* is moved on by eight stages
ShiftOutByte(reg, byte) ==
    {k + 8 : k \in {j \in reg : j + 8 <= numChips * 8 - 1}}
        \cup {7 - SendIndex(p) : p \in byte}

\* the whole shift-out loop, for (chip = numChips - 1; chip >= 0; chip--),
\* from chip c on
RECURSIVE ShiftOutStream(_, _, _)
ShiftOutStream(reg, stream, c) ==
    IF c < 0 THEN reg
    ELSE ShiftOutStream(ShiftOutByte(reg, DataByte(stream, c)), stream, c - 1)

\* the registers after one call of updateDisplay() that shifts out `masked`
Emitted(reg, masked) == ShiftOutStream(reg, masked, numChips - 1)

\* the log entry of one call of updateDisplay(): whether the digit bits and
\* the colon bits were kept, and the brightness levels it read
EmitEvent(dB, lB, dC, lC) ==
    [ev |-> "emit", dk |-> ~(dC >= dB), lk |-> ~(lC >= lB), db |-> dB, lb |-> lB]

\* an entry of the event log that is no emission
Event(name, dB, lB) == [ev |-> name, dk |-> FALSE, lk |-> FALSE, db |-> dB, lb |-> lB]

(***************************************************************************)
(* The environment: what now(), WiFi and the timezone service may deliver  *)
(***************************************************************************)
\* a zoneEnd after every time value the model reads
FarZoneEnd == 90000

\* zoneEnd of the lease that runs out within the modelled time values
NearZoneEnd == 1000

\* JSON documents the service answers with (the fields the firmware reads)
Documents ==
    { [dst |-> "1", gmtOffset |-> 7200, zoneEnd |-> NearZoneEnd],
      [dst |-> "0", gmtOffset |-> 3600, zoneEnd |-> FarZoneEnd] }

\* what deserializeJson() leaves in the document: the parsed fields, or an
\* empty document when the body is no JSON; as<T>() of a missing member is
\* the default value of T
NullDocument == [dst |-> "null", gmtOffset |-> 0, zoneEnd |-> 0]

deserializeJson(body) == IF body.json THEN body.doc ELSE NullDocument

\* the answers of one getTzInfo() call: the WiFi status it reads, the code
\* http.GET() returns and the body http.getString() returns
Responses ==
    { [wifi |-> FALSE, code |-> 0, body |-> [json |-> FALSE, doc |-> NullDocument]],
      [wifi |-> TRUE, code |-> 500, body |-> [json |-> FALSE, doc |-> NullDocument]],
      [wifi |-> TRUE, code |-> 200, body |-> [json |-> FALSE, doc |-> NullDocument]] }
    \cup { [wifi |-> TRUE, code |-> 200, body |-> [json |-> TRUE, doc |-> d]] : d \in Documents }

\* before any call: nothing was read
NoAnswer == [wifi |-> FALSE, code |-> 0, body |-> [json |-> FALSE, doc |-> NullDocument]]

\* one time value in every hour of the day, with differing minutes and seconds
HourlyTimes == {h * 3600 + ((h * 7) % 60) * 60 + ((h * 13) % 60) : h \in 0..23}

\* the values now() returns: around the end of the near lease, and over the day
Times == {0, NearZoneEnd - 1, NearZoneEnd, NearZoneEnd + 1} \cup HourlyTimes

\* the modelled time value after t (t itself when there is none)
NextTime(t) ==
    IF \E x \in Times : x > t
    THEN CHOOSE x \in Times : x > t /\ \A y \in Times : y > t => x <= y
    ELSE t

\* what now() may return when it returned t the last time: the same second,
\* a later time, or the earliest one after the time source stepped back
NowValues(t) == {t, NextTime(t), 0}

\* the passcodes random(1000, 10000) is drawn from here
Passcodes == {1000, 4270, 9999}

\* timer callbacks the model lets run while autoConnect() blocks
MaxTickerFires == 8

(***************************************************************************)
(* main.cpp: getTzInfo()                                                   *)
(***************************************************************************)
getTzInfoOk_unchecked(r) == TRUE

\* the return value: false without WiFi or with a code other than HTTP_CODE_OK
getTzInfoOk(r) == r.wifi /\ r.code = 200

\* *out after a call that returned true
getTzInfoOut(r) ==
    LET document == deserializeJson(r.body)
    IN  [dstInEffect |-> (document.dst = "1"),
         offset      |-> document.gmtOffset,
         validUntil  |-> document.zoneEnd]

\* NTP.setTimeZone(tzInfo.offset / SECS_PER_HOUR, tzInfo.offset % SECS_PER_HOUR)
setTimeZoneArgs(offset) == <<CDiv(offset, 3600), CMod(offset, 3600)>>

(***************************************************************************)
(* main.cpp: loop(), the test  tzInfo.validUntil < currentTime             *)
(***************************************************************************)
NeedsRenewal(validUntil, t) == validUntil < t

\* timeElements.Hour >= beginLowBrightnessHour || timeElements.Hour < endLowBrightnessHour
LowBrightnessHour(hour) == hour >= beginLowBrightnessHour \/ hour < endLowBrightnessHour

(***************************************************************************)
(* The state after power-on or ESP.restart(): globals and statics hold     *)
(* their initialisers; the shift registers keep what they held             *)
(***************************************************************************)
ZeroTzInfo == [dstInEffect |-> FALSE, offset |-> 0, validUntil |-> 0]

NoTime == [Second |-> 0, Minute |-> 0, Hour |-> 0]

\* what the registers may hold when power comes up
PowerOnPatterns == {{}, OutputLines}

\* the variables of the stepwise emission, as a whole updateDisplay() leaves them
EmissionDone(masked) ==
    /\ maskedStream' = masked
    /\ chip' = -1
    /\ bitsLeft' = 0
    /\ clockPulses' = numChips * 8
    /\ latchRises' = 1
    /\ latchPin' = "HIGH"

\* a state in which the control flow is at `at`, the frame slot, the last
\* setDisplay() arguments, the brightness levels, the PWM counters and the
\* registers are as given, and everything else is as the program starts it
StateAt(at, stream, time, dots, dB, lB, c, reg) ==
    /\ pc = at
    /\ tzInfo = ZeroTzInfo
    /\ displaySerialStream = stream
    /\ digitBrightness = dB
    /\ ledBrightness = lB
    /\ digitPwmCounter = c
    /\ ledPwmCounter = c
    /\ currentDot = 0
    /\ direction = TRUE
    /\ apPasscode = <<>>
    /\ tickerAttached = FALSE
    /\ tickerFires = 0
    /\ wifiConnected = FALSE
    /\ testStep = 0
    /\ lastUpdate = 0
    /\ currentTime = 0
    /\ timeArg = time
    /\ dotsArg = dots
    /\ ntpTimeZone = <<0, 0>>
    /\ answer = NoAnswer
    /\ renewed = FALSE
    /\ delayMs = 0
    /\ latchPin = "LOW"
    /\ shiftReg = reg
    /\ outputs = reg
    /\ chip = 0
    /\ bitsLeft = 0
    /\ maskedStream = {}
    /\ clockPulses = 0
    /\ latchRises = 0
    /\ log = <<>>
    /\ nTicks = 0
    /\ nDigitLit = 0
    /\ nLedLit = 0
    /\ nDigitDark = 0
    /\ nLedDark = 0

\* power-on: setup() is about to call displayTest()
Init ==
    \E p \in PowerOnPatterns :
        StateAt("displayTest", {}, NoTime, 0, maxBrightness, maxBrightness, 0, p)

pwmVars == <<nTicks, nDigitLit, nLedLit, nDigitDark, nLedDark>>

provisioningVars == <<currentDot, direction, apPasscode, tickerAttached, tickerFires>>

loopVars == <<lastUpdate, currentTime>>

leaseVars == <<tzInfo, ntpTimeZone, answer, renewed, wifiConnected>>

(***************************************************************************)
(* setDisplay(time, dots): compose the frame, then updateDisplay()         *)
(***************************************************************************)
SetDisplay(time, dots) ==
    LET stream == setDisplayStream(time, dots)
        masked == MaskedStream(stream, digitBrightness, ledBrightness,
                               digitPwmCounter, ledPwmCounter)
    IN  /\ displaySerialStream' = stream
        /\ timeArg' = time
        /\ dotsArg' = dots
        /\ digitPwmCounter' = NextCounter(digitPwmCounter)
        /\ ledPwmCounter' = NextCounter(ledPwmCounter)
        /\ EmissionDone(masked)
        /\ shiftReg' = Emitted(shiftReg, maskedStream')
        /\ outputs' = shiftReg'
        /\ log' = <<Event("compose", digitBrightness, ledBrightness),
                    EmitEvent(digitBrightness, ledBrightness, digitPwmCounter, ledPwmCounter)>>

(***************************************************************************)
(* displayTest(): one iteration of its two loops per step                  *)
(***************************************************************************)
TestIndex_upTwice(step) == step % 10

\* the loop variable i in iteration number `step` (from 0) of displayTest():
\* the first loop counts 0..9, the second 9..0
TestIndex(step) == IF step < 10 THEN step ELSE 19 - step

DisplayTestStep ==
    /\ pc = "displayTest"
    /\ testStep < 20
    /\ LET i == TestIndex(testStep)
           doubleDigit == ((i * 10) + i) % 256
           testDisplay == [Second |-> IF testStep < 10 THEN 0 ELSE 1,
                           Minute |-> doubleDigit, Hour |-> doubleDigit]
       IN  SetDisplay(testDisplay, IF i % 2 # 0 THEN 15 ELSE 0)
    /\ testStep' = testStep + 1
    /\ delayMs' = 300
    /\ UNCHANGED <<pc, digitBrightness, ledBrightness>>
    /\ UNCHANGED <<provisioningVars, loopVars, leaseVars, pwmVars>>

(***************************************************************************)
(* setup(): the passcode is drawn and the animation timer attached         *)
(***************************************************************************)
\* String(random(1000, 10000), DEC): the decimal digits of the number
DecimalString(n) == <<(n \div 1000) % 10, (n \div 100) % 10, (n \div 10) % 10, n % 10>>

StartProvisioning ==
    /\ pc = "displayTest"
    /\ testStep = 20
    /\ \E n \in Passcodes : apPasscode' = DecimalString(n)
    /\ tickerAttached' = TRUE
    /\ pc' = "autoConnect"
    /\ delayMs' = 0
    /\ log' = <<>>
    /\ UNCHANGED <<tzInfo, displaySerialStream, digitBrightness, ledBrightness,
                   digitPwmCounter, ledPwmCounter, currentDot, direction, tickerFires,
                   wifiConnected, testStep, lastUpdate, currentTime, timeArg, dotsArg,
                   ntpTimeZone, answer, renewed, latchPin, shiftReg, outputs, chip, bitsLeft,
                   maskedStream, clockPulses, latchRises>>
    /\ UNCHANGED pwmVars

(***************************************************************************)
(* displayPasscode(), the timer callback                                   *)
(***************************************************************************)
\* direction ? currentDot++ : currentDot-- on a uint8_t
StepDot(dot, dir) == IF dir THEN (dot + 1) % 256 ELSE (dot + 255) % 256

TurnDirection_lastOnly(dot, dir) == IF dot = numDigits - 1 THEN ~dir ELSE dir

\* if (currentDot == numDigits - 1 || currentDot == 0) direction = !direction
TurnDirection(dot, dir) == IF dot = numDigits - 1 \/ dot = 0 THEN ~dir ELSE dir

\* tmElements_t passcodeTime = {0, minute, hour} from the four characters
PasscodeTime(code) ==
    [Second |-> 0,
     Minute |-> (code[3] * 10 + code[4]) % 256,
     Hour   |-> (code[1] * 10 + code[2]) % 256]

\* the callback runs whenever the timer is attached and its period elapses
DisplayPasscode ==
    /\ tickerAttached
    /\ tickerFires < MaxTickerFires
    /\ LET dot == StepDot(currentDot, direction)
           dir == TurnDirection(dot, direction)
           passcodeTime == PasscodeTime(apPasscode)
           dotState == (IF dot < 8 THEN Pow2(dot) ELSE 0) % 256
       IN  /\ currentDot' = dot
           /\ direction' = dir
           /\ SetDisplay(passcodeTime, dotState)
    /\ tickerFires' = tickerFires + 1
    /\ UNCHANGED <<pc, digitBrightness, ledBrightness, apPasscode, tickerAttached,
                   testStep, delayMs>>
    /\ UNCHANGED <<loopVars, leaseVars, pwmVars>>

(***************************************************************************)
(* setup(): autoConnect() returns, the timer is detached, NTP is started   *)
(***************************************************************************)
Detached_skipped(attached) == attached

\* connectingTicker.detach(): the timer is attached no more
Detached(attached) == FALSE

AutoConnectReturns ==
    /\ pc = "autoConnect"
    /\ \E connected \in BOOLEAN : wifiConnected' = connected
    /\ tickerAttached' = Detached(tickerAttached)
    /\ pc' = "syncing"
    /\ log' = <<>>
    /\ UNCHANGED <<tzInfo, displaySerialStream, digitBrightness, ledBrightness,
                   digitPwmCounter, ledPwmCounter, currentDot, direction, apPasscode,
                   tickerFires, testStep, lastUpdate, currentTime, timeArg, dotsArg,
                   ntpTimeZone, answer, renewed, delayMs, latchPin, shiftReg, outputs, chip,
                   bitsLeft, maskedStream, clockPulses, latchRises>>
    /\ UNCHANGED pwmVars

(***************************************************************************)
(* updateTimeZoneInfo() with the answers r, where it returns               *)
(***************************************************************************)
TimeZoneUpdated(r) ==
    LET out == getTzInfoOut(r)
    IN  /\ tzInfo' = out
        /\ ntpTimeZone' = setTimeZoneArgs(out.offset)
        /\ renewed' = TRUE
        /\ wifiConnected' = r.wifi
        /\ answer' = r

\* getTzInfo() returned false: *out is not written, delay(5000), ESP.restart()
TimeZoneUpdateFailed(r) ==
    /\ wifiConnected' = r.wifi
    /\ answer' = r
    /\ delayMs' = RebootDelayMs
    /\ pc' = "rebootWait"
    /\ UNCHANGED <<tzInfo, ntpTimeZone, renewed>>

(***************************************************************************)
(* setup(): the initial updateTimeZoneInfo(), then NTP.setInterval(63)     *)
(***************************************************************************)
InitialTimeZoneUpdate ==
    /\ pc = "syncing"
    /\ \E r \in Responses :
          IF getTzInfoOk(r)
          THEN /\ TimeZoneUpdated(r)
               /\ pc' = "running"
               /\ apPasscode' = <<>>
               /\ log' = <<Event("renew", digitBrightness, ledBrightness)>>
               /\ UNCHANGED delayMs
          ELSE /\ TimeZoneUpdateFailed(r)
               /\ log' = <<Event("renew", digitBrightness, ledBrightness),
                           Event("delay", digitBrightness, ledBrightness)>>
               /\ UNCHANGED apPasscode
    /\ UNCHANGED <<displaySerialStream, digitBrightness, ledBrightness, digitPwmCounter,
                   ledPwmCounter, testStep, timeArg, dotsArg, latchPin, shiftReg, outputs,
                   chip, bitsLeft, maskedStream, clockPulses, latchRises>>
    /\ UNCHANGED <<currentDot, direction, tickerAttached, tickerFires>>
    /\ UNCHANGED <<loopVars, pwmVars>>

(***************************************************************************)
(* loop()                                                                  *)
(***************************************************************************)
PolicyBrightness_always_max(hour) == maxBrightness

\* the brightness both channels get for the hour shown
PolicyBrightness(hour) == IF LowBrightnessHour(hour) THEN lowBrightness ELSE maxBrightness

ForcedBrightness_kept(b) == b

\* digitBrightness = maxBrightness; ledBrightness = maxBrightness; at the
\* head of a per-second update, whatever the level b was
ForcedBrightness(b) == maxBrightness

\* breakTime, setDisplay, lastUpdate, the brightness for the hour, and the
\* updateDisplay() that ends the iteration; `before` is the log so far and
\* reg1 the registers after the forced updateDisplay()
ShowTime(t, before, reg1) ==
    LET timeElements == breakTime(t)
        fD  == ForcedBrightness(digitBrightness)
        fL  == ForcedBrightness(ledBrightness)
        dC1 == NextCounter(digitPwmCounter)
        lC1 == NextCounter(ledPwmCounter)
        dC2 == NextCounter(dC1)
        lC2 == NextCounter(lC1)
        b   == PolicyBrightness(timeElements.Hour)
    IN  /\ displaySerialStream' = setDisplayStream(timeElements, 0)
        /\ timeArg' = timeElements
        /\ dotsArg' = 0
        /\ lastUpdate' = t
        /\ ledBrightness' = b
        /\ digitBrightness' = b
        /\ digitPwmCounter' = NextCounter(dC2)
        /\ ledPwmCounter' = NextCounter(lC2)
        /\ EmissionDone(MaskedStream(displaySerialStream', b, b, dC2, lC2))
        /\ shiftReg' = Emitted(Emitted(reg1, MaskedStream(displaySerialStream', fD, fL,
                                                          dC1, lC1)),
                               maskedStream')
        /\ outputs' = shiftReg'
        /\ log' = before \o <<Event("compose", fD, fL),
                              EmitEvent(fD, fL, dC1, lC1),
                              Event("lastUpdate", fD, fL),
                              Event("policy", b, b),
                              EmitEvent(b, b, dC2, lC2)>>
        /\ UNCHANGED <<pc, delayMs>>

\* a second passed
SecondPassed(t) ==
    LET fD     == ForcedBrightness(digitBrightness)
        fL     == ForcedBrightness(ledBrightness)
        forced == <<Event("maxBrightness", fD, fL),
                    EmitEvent(fD, fL, digitPwmCounter, ledPwmCounter)>>
        renew  == Event("renew", fD, fL)
        m1     == MaskedStream(displaySerialStream, fD, fL, digitPwmCounter, ledPwmCounter)
    IN  IF NeedsRenewal(tzInfo.validUntil, t)
        THEN \E r \in Responses :
                IF getTzInfoOk(r)
                THEN /\ TimeZoneUpdated(r)
                     /\ ShowTime(t, forced \o <<renew>>, Emitted(shiftReg, m1))
                ELSE /\ TimeZoneUpdateFailed(r)
                     /\ digitBrightness' = fD
                     /\ ledBrightness' = fL
                     /\ digitPwmCounter' = NextCounter(digitPwmCounter)
                     /\ ledPwmCounter' = NextCounter(ledPwmCounter)
                     /\ EmissionDone(m1)
                     /\ shiftReg' = Emitted(shiftReg, maskedStream')
                     /\ outputs' = shiftReg'
                     /\ log' = forced \o <<renew, Event("delay", fD, fL)>>
                     /\ UNCHANGED <<displaySerialStream, timeArg, dotsArg, lastUpdate>>
        ELSE /\ ShowTime(t, forced, Emitted(shiftReg, m1))
             /\ UNCHANGED leaseVars

SameSecond_forced ==
    /\ digitPwmCounter' = NextCounter(digitPwmCounter)
    /\ ledPwmCounter' = NextCounter(ledPwmCounter)
    /\ digitBrightness' = maxBrightness
    /\ ledBrightness' = maxBrightness
    /\ EmissionDone(MaskedStream(displaySerialStream, digitBrightness', ledBrightness',
                                 digitPwmCounter, ledPwmCounter))
    /\ shiftReg' = Emitted(shiftReg, maskedStream')
    /\ outputs' = shiftReg'
    /\ log' = <<EmitEvent(digitBrightness', ledBrightness', digitPwmCounter, ledPwmCounter)>>
    /\ UNCHANGED <<pc, displaySerialStream, timeArg, dotsArg, lastUpdate, delayMs>>
    /\ UNCHANGED leaseVars

\* currentTime == lastUpdate: only the updateDisplay() that ends the iteration
SameSecond ==
    /\ digitPwmCounter' = NextCounter(digitPwmCounter)
    /\ ledPwmCounter' = NextCounter(ledPwmCounter)
    /\ EmissionDone(MaskedStream(displaySerialStream, digitBrightness, ledBrightness,
                                 digitPwmCounter, ledPwmCounter))
    /\ shiftReg' = Emitted(shiftReg, maskedStream')
    /\ outputs' = shiftReg'
    /\ log' = <<EmitEvent(digitBrightness, ledBrightness, digitPwmCounter, ledPwmCounter)>>
    /\ UNCHANGED <<pc, displaySerialStream, digitBrightness, ledBrightness, timeArg,
                   dotsArg, lastUpdate, delayMs>>
    /\ UNCHANGED leaseVars

SecondChanged_later(t, last) == t > last

\* if (currentTime != lastUpdate)
SecondChanged(t, last) == t # last

Loop ==
    /\ pc = "running"
    /\ \E t \in NowValues(currentTime) :
          /\ currentTime' = t
          /\ IF SecondChanged(t, lastUpdate) THEN SecondPassed(t) ELSE SameSecond
    /\ UNCHANGED <<testStep, provisioningVars, pwmVars>>

(***************************************************************************)
(* ESP.restart() after the delay: the program starts over, the registers   *)
(* keep their contents                                                     *)
(***************************************************************************)
Restart ==
    /\ pc = "rebootWait"
    /\ pc' = "displayTest"
    /\ tzInfo' = ZeroTzInfo
    /\ displaySerialStream' = {}
    /\ digitBrightness' = maxBrightness
    /\ ledBrightness' = maxBrightness
    /\ digitPwmCounter' = 0
    /\ ledPwmCounter' = 0
    /\ currentDot' = 0
    /\ direction' = TRUE
    /\ apPasscode' = <<>>
    /\ tickerAttached' = FALSE
    /\ tickerFires' = 0
    /\ wifiConnected' = FALSE
    /\ testStep' = 0
    /\ lastUpdate' = 0
    /\ currentTime' = 0
    /\ timeArg' = NoTime
    /\ dotsArg' = 0
    /\ ntpTimeZone' = <<0, 0>>
    /\ answer' = NoAnswer
    /\ renewed' = FALSE
    /\ delayMs' = 0
    /\ latchPin' = "LOW"
    /\ chip' = 0
    /\ bitsLeft' = 0
    /\ maskedStream' = {}
    /\ clockPulses' = 0
    /\ latchRises' = 0
    /\ log' = <<>>
    /\ UNCHANGED <<shiftReg, outputs>>
    /\ UNCHANGED pwmVars

Next ==
    \/ DisplayTestStep
    \/ StartProvisioning
    \/ DisplayPasscode
    \/ AutoConnectReturns
    \/ InitialTimeZoneUpdate
    \/ Loop
    \/ Restart

Spec == Init /\ [][Next]_vars

(***************************************************************************)
(* setDisplay() on its own: every hour and minute, every dot pattern       *)
(***************************************************************************)
\* the hours and minutes that are combined with every second 0..59
ComposeClockTimes == {<<0, 0>>, <<7, 5>>, <<12, 34>>, <<23, 59>>}

\* setDisplay() is about to be called: with every hour, minute and dot mask
\* for an even and an odd second, and with every second for a few times
InitCompose ==
    \/ \E h \in 0..23, m \in 0..59, sec \in {0, 1}, d \in 0..15 :
          StateAt("setDisplay", {}, [Second |-> sec, Minute |-> m, Hour |-> h], d,
                  maxBrightness, maxBrightness, 0, {})
    \/ \E hm \in ComposeClockTimes, sec \in 0..59, d \in 0..15 :
          StateAt("setDisplay", {}, [Second |-> sec, Minute |-> hm[2], Hour |-> hm[1]], d,
                  maxBrightness, maxBrightness, 0, {})

SetDisplayCall ==
    /\ pc = "setDisplay"
    /\ SetDisplay(timeArg, dotsArg)
    /\ pc' = "composed"
    /\ UNCHANGED <<digitBrightness, ledBrightness, testStep, delayMs>>
    /\ UNCHANGED <<provisioningVars, loopVars, leaseVars, pwmVars>>

NextCompose == SetDisplayCall

SpecCompose == InitCompose /\ [][NextCompose]_vars

(***************************************************************************)
(* updateDisplay() called over and over with a constant frame and constant *)
(* brightness levels: one PWM period of maxBrightness + 1 calls            *)
(***************************************************************************)
\* the frame of 12:34:11 with the dots 0b1010
PwmFrame == setDisplayStream([Second |-> 11, Minute |-> 34, Hour |-> 12], 10)

InitPwm ==
    \E dB \in 0..maxBrightness, c \in 0..maxBrightness :
        \E lB \in {dB, maxBrightness - dB} :
            StateAt("pwm", PwmFrame, [Second |-> 11, Minute |-> 34, Hour |-> 12], 10,
                    dB, lB, c, {})

\* the lines of the digit cathodes and of the colon LEDs
DigitLines == UNION {{digitsPinmap[d][n] : n \in 0..9} : d \in 0..(numDigits - 1)}

LedLines == {ledsPinmap[0], ledsPinmap[1]}

DotLines == {dotsPinmap[i] : i \in 0..(numDigits - 1)}

PwmTick ==
    /\ pc = "pwm"
    /\ nTicks < maxBrightness + 1
    /\ SameSecond
    /\ nTicks' = nTicks + 1
    /\ nDigitLit' = nDigitLit
          + (IF outputs' \cap DigitLines = displaySerialStream \cap DigitLines THEN 1 ELSE 0)
    /\ nDigitDark' = nDigitDark + (IF outputs' \cap DigitLines = {} THEN 1 ELSE 0)
    /\ nLedLit' = nLedLit
          + (IF outputs' \cap LedLines = displaySerialStream \cap LedLines THEN 1 ELSE 0)
    /\ nLedDark' = nLedDark + (IF outputs' \cap LedLines = {} THEN 1 ELSE 0)
    /\ UNCHANGED <<testStep, provisioningVars, loopVars>>

NextPwm == PwmTick

SpecPwm == InitPwm /\ [][NextPwm]_vars

(***************************************************************************)
(* updateDisplay() pulse by pulse: latch low, 48 clock pulses, latch high  *)
(***************************************************************************)
\* the frames shifted out: every single line, every line but one, all, none,
\* a composed frame, and bits beyond the 48 lines
ShiftFrames ==
    {{k} : k \in OutputLines} \cup {OutputLines \ {k} : k \in OutputLines}
        \cup {OutputLines, {}, PwmFrame, U64, {63}}

InitShift ==
    \E f \in ShiftFrames, p \in PowerOnPatterns, dB \in {0, maxBrightness} :
        StateAt("updateDisplay", f, NoTime, 0, dB, maxBrightness, 0, p)

\* updateDisplay() calls in a row the pulse-by-pulse model follows
MaxEmissions == 2

LatchLow_missing(level) == level

\* digitalWrite(latchPin, LOW): the level of the latch line after it
LatchLow(level) == "LOW"

\* lines 213-232: mask, advance the counters, latch low; the call follows
\* power-on or the call before it
BeginEmission ==
    /\ pc \in {"updateDisplay", "emitted"}
    /\ nTicks < MaxEmissions
    /\ nTicks' = nTicks + 1
    /\ maskedStream' = MaskedStream(displaySerialStream, digitBrightness, ledBrightness,
                                    digitPwmCounter, ledPwmCounter)
    /\ digitPwmCounter' = NextCounter(digitPwmCounter)
    /\ ledPwmCounter' = NextCounter(ledPwmCounter)
    /\ latchPin' = LatchLow(latchPin)
    /\ chip' = numChips - 1
    /\ bitsLeft' = 8
    /\ clockPulses' = 0
    /\ latchRises' = 0
    /\ pc' = "shiftOut"
    /\ log' = <<EmitEvent(digitBrightness, ledBrightness, digitPwmCounter, ledPwmCounter)>>
    /\ UNCHANGED <<displaySerialStream, digitBrightness, ledBrightness, testStep, timeArg,
                   dotsArg, delayMs, shiftReg, outputs>>
    /\ UNCHANGED <<provisioningVars, loopVars, leaseVars>>
    /\ UNCHANGED <<nDigitLit, nLedLit, nDigitDark, nLedDark>>

\* one bit of shiftOut(dataPin, clockPin, MSBFIRST, dataByte): data, clock pulse
ClockPulse ==
    /\ pc = "shiftOut"
    /\ chip >= 0
    /\ shiftReg' = ClockIn(shiftReg, BitToSend(DataByte(maskedStream, chip), 8 - bitsLeft))
    /\ clockPulses' = clockPulses + 1
    /\ IF bitsLeft > 1
       THEN /\ bitsLeft' = bitsLeft - 1
            /\ chip' = chip
       ELSE /\ bitsLeft' = IF chip > 0 THEN 8 ELSE 0
            /\ chip' = chip - 1
    /\ UNCHANGED <<pc, displaySerialStream, digitBrightness, ledBrightness, digitPwmCounter,
                   ledPwmCounter, testStep, timeArg, dotsArg, delayMs, latchPin, outputs,
                   maskedStream, latchRises, log>>
    /\ UNCHANGED <<provisioningVars, loopVars, leaseVars, pwmVars>>

\* digitalWrite(latchPin, HIGH): the rising edge copies the stages to the outputs
LatchHigh ==
    /\ pc = "shiftOut"
    /\ chip < 0
    /\ latchPin' = "HIGH"
    /\ outputs' = IF latchPin = "LOW" THEN shiftReg ELSE outputs
    /\ latchRises' = latchRises + (IF latchPin = "LOW" THEN 1 ELSE 0)
    /\ pc' = "emitted"
    /\ UNCHANGED <<displaySerialStream, digitBrightness, ledBrightness, digitPwmCounter,
                   ledPwmCounter, testStep, timeArg, dotsArg, delayMs, shiftReg, chip,
                   bitsLeft, maskedStream, clockPulses, log>>
    /\ UNCHANGED <<provisioningVars, loopVars, leaseVars, pwmVars>>

NextShift ==
    \/ BeginEmission
    \/ ClockPulse
    \/ LatchHigh

SpecShift == InitShift /\ [][NextShift]_vars

(***************************************************************************)
(* Properties                                                              *)
(***************************************************************************)
\* the handler that ran last logged the event `name`
Logged(l, name) == \E i \in 1..Len(l) : l[i].ev = name

\* the step is a per-second update that ran to its end, for the time now() returned
UpdateCompleted == pc = "running" /\ Logged(log, "policy")

\* in the log, a "renew" comes before every "compose"
RenewedBeforeCompose(l) ==
    \E i \in 1..Len(l) : l[i].ev = "renew" /\ \A j \in 1..Len(l) : l[j].ev = "compose" => i < j

\* C1 (renewal law): whenever a per-second update for the time t has
\* completed without rebooting, t < tzInfo.validUntil.
C1_RenewalLaw == UpdateCompleted => currentTime < tzInfo.validUntil

\* C2: every per-second update that starts with now >= tzInfo.validUntil (the
\* boundary now = validUntil included) calls the renewal, and calls it before
\* the display state of that second is composed.
C2_RenewalAtExpiry ==
    [][(pc = "running" /\ currentTime' # lastUpdate /\ currentTime' >= tzInfo.validUntil)
          => RenewedBeforeCompose(log')]_vars

\* the step called getTzInfo()
RenewalStep == pc \in {"syncing", "running"} /\ Logged(log', "renew")

\* C3: a renewal that fails for lack of WiFi or with an HTTP status other than
\* 200, in setup() or in loop(), leaves the lease and the frame slot as they
\* were, composes no display state, waits 5000 ms and restarts; the waiting
\* program does nothing but restart; and loop() runs only after a renewal
\* succeeded.
C3_FailedRenewalReboots ==
    [][/\ (RenewalStep /\ (~answer'.wifi \/ answer'.code # 200))
            => /\ pc' = "rebootWait"
               /\ delayMs' = 5000
               /\ tzInfo' = tzInfo
               /\ displaySerialStream' = displaySerialStream
               /\ lastUpdate' = lastUpdate
               /\ ~Logged(log', "compose")
       /\ pc = "rebootWait"
            => /\ pc' = "displayTest"
               /\ testStep' = 0
               /\ displaySerialStream' = {}
               /\ outputs' = outputs
               /\ ~renewed'
       /\ pc' = "running" => renewed'
      ]_vars

\* C3 witness: the program waits for its restart after a renewal in loop()
\* was answered with status 500.
C3_Witness ==
    /\ pc = "rebootWait"
    /\ delayMs = 5000
    /\ answer.wifi /\ answer.code = 500
    /\ Logged(log, "maxBrightness")
    /\ renewed

\* C4: a 200 answer whose body is no JSON is a failed renewal: the lease is
\* left as it was and the program waits 5000 ms and restarts.
C4_ParseFailureIsFailure ==
    [][(RenewalStep /\ answer'.wifi /\ answer'.code = 200 /\ ~answer'.body.json)
          => (pc' = "rebootWait" /\ delayMs' = 5000 /\ tzInfo' = tzInfo)]_vars

\* C5 (PWM duty law): after maxBrightness + 1 calls of updateDisplay() with a
\* constant frame, exactly digitBrightness of them lit the digit lines and
\* the others left them dark, and the same for the colon with ledBrightness.
C5_PwmDuty ==
    nTicks = maxBrightness + 1
        => /\ nDigitLit = digitBrightness
           /\ nDigitDark = maxBrightness + 1 - digitBrightness
           /\ nLedLit = ledBrightness
           /\ nLedDark = maxBrightness + 1 - ledBrightness

\* C5 witness: brightness 25, counters started at 0: 25 lit and 26 dark.
C5_Witness ==
    /\ nTicks = 51
    /\ digitBrightness = 25
    /\ digitPwmCounter = 0
    /\ nDigitLit = 25
    /\ nDigitDark = 26

\* C6: the frame setDisplay() writes is exactly the four numeral bits of
\* hour / 10, hour % 10, minute / 10, minute % 10, the dot bit of every set
\* bit of the dot mask, and both colon bits iff the second is odd.
C6_FrameBits ==
    pc = "composed"
        => /\ displaySerialStream =
                 {digitsPinmap[0][timeArg.Hour \div 10], digitsPinmap[1][timeArg.Hour % 10],
                  digitsPinmap[2][timeArg.Minute \div 10], digitsPinmap[3][timeArg.Minute % 10]}
                 \cup {dotsPinmap[i] : i \in {j \in 0..3 : (dotsArg \div (2 ^ j)) % 2 = 1}}
                 \cup (IF timeArg.Second % 2 = 1 THEN {ledsPinmap[0], ledsPinmap[1]} ELSE {})
           /\ (timeArg = [Second |-> 2, Minute |-> 5, Hour |-> 7] /\ dotsArg = 0)
                 => displaySerialStream = {5, 17, 39, 34}
           /\ (timeArg = [Second |-> 11, Minute |-> 34, Hour |-> 12] /\ dotsArg = 10)
                 => displaySerialStream = {3, 10, 29, 38, 21, 44, 22, 23}

\* C6 witness: 12:34:11 with the dots 0b1010 has been composed.
C6_Witness ==
    /\ pc = "composed"
    /\ timeArg = [Second |-> 11, Minute |-> 34, Hour |-> 12]
    /\ dotsArg = 10
    /\ Cardinality(displaySerialStream) = 8

\* a frame has been composed since the program started
FrameComposed == ~(pc = "displayTest" /\ testStep = 0)

\* C7 (frame well-formedness): once a frame is composed, the frame slot has
\* exactly one bit among the ten numeral bits of each digit, four digit bits
\* in all, at most four dot bits, both colon bits or none, and no bit outside
\* the 48 lines; and the numerals looked up are in 0..9.
C7_WellFormed ==
    FrameComposed
        => /\ \A d \in 0..3 :
                 Cardinality(displaySerialStream \cap {digitsPinmap[d][n] : n \in 0..9}) = 1
           /\ Cardinality(displaySerialStream \cap DigitLines) = 4
           /\ Cardinality(displaySerialStream \cap DotLines) <= 4
           /\ displaySerialStream \cap LedLines \in {{}, LedLines}
           /\ displaySerialStream \subseteq (DigitLines \cup DotLines \cup LedLines)
           /\ displaySerialStream \subseteq 0..47
           /\ {timeArg.Hour \div 10, timeArg.Hour % 10,
               timeArg.Minute \div 10, timeArg.Minute % 10} \subseteq 0..9

\* C7 witness: after self-test and the passcode animation, a per-second
\* update composed a frame with the colon lit.
C7_Witness ==
    /\ pc = "running"
    /\ tickerFires > 0
    /\ UpdateCompleted
    /\ timeArg.Second % 2 = 1
    /\ Cardinality(displaySerialStream) = 6

\* C8 (pinmap disjointness, variant 12): the three masks are pairwise
\* disjoint, the ten numeral bits of each digit are distinct, and all bit
\* indices of the digit, dot and colon maps are distinct and in 0..47; the
\* three masks cover every bit of the frame slot.
C8_PinmapDisjoint ==
    /\ displaySerialStream \subseteq (digitsMask \cup dotsMask \cup ledsMask)
    /\ digitsMask \cap dotsMask = {}
    /\ digitsMask \cap ledsMask = {}
    /\ dotsMask \cap ledsMask = {}
    /\ \A d \in 0..3 : Cardinality({digitsPinmap[d][n] : n \in 0..9}) = 10
    /\ Cardinality(DigitLines) = 40
    /\ Cardinality(DotLines) = 4
    /\ Cardinality(LedLines) = 2
    /\ Cardinality(DigitLines \cup DotLines \cup LedLines) = 46
    /\ (DigitLines \cup DotLines \cup LedLines) \subseteq 0..47
    /\ DigitLines \subseteq digitsMask

\* C8 witness: the last frame of the self-test, every digit showing 0 with
\* the colon lit, is in the frame slot.
C8_Witness ==
    /\ pc = "displayTest"
    /\ testStep = 20
    /\ displaySerialStream = {digitsPinmap[d][0] : d \in 0..3} \cup ledsMask

\* C9 (shift-out ordering): after latch low, 48 clock pulses (chips 5 down to
\* 0, each byte MSB first) and latch high, output k of the chain holds bit k
\* of the masked frame, for every k in 0..47.
C9_ShiftOutOrder ==
    pc = "emitted"
        => /\ clockPulses = 48
           /\ \A k \in 0..47 : (k \in outputs) <=> (k \in maskedStream)
           /\ \A p \in PowerOnPatterns : Emitted(p, maskedStream) = outputs

\* C9 witness: the frame with only line 47 set has been shifted through the
\* chain that held all ones.
C9_Witness ==
    /\ pc = "emitted"
    /\ displaySerialStream = {47}
    /\ outputs = {47}
    /\ latchPin = "HIGH"

\* C10 (brightness policy law): after a per-second update both brightness
\* levels are equal, 10 for the hours 0..5 and 21..23, 50 for the hours 6..20.
C10_BrightnessPolicy ==
    UpdateCompleted
        => /\ digitBrightness = ledBrightness
           /\ timeArg.Hour \in (0..5) \cup (21..23) => digitBrightness = 10
           /\ timeArg.Hour \in 6..20 => digitBrightness = 50
           /\ timeArg.Hour \in 0..23

\* C10 witness: an update for an hour of the night left both levels at 10.
C10_Witness ==
    /\ UpdateCompleted
    /\ timeArg.Hour = 21
    /\ digitBrightness = 10
    /\ ledBrightness = 10

\* the dot position after n timer callbacks when the walk starts at `first`:
\* up to position 3, down to position 0, and so on
WalkPosition(first, n) ==
    LET r == (first + n - 1) % 6
    IN  IF r <= 3 THEN r ELSE 6 - r

\* C11 as claimed: the n-th timer callback after boot shows the passcode as
\* hour and minute with the colon off and the dot masks 0b0001, 0b0010,
\* 0b0100, 0b1000, 0b0100, 0b0010, 0b0001, 0b0010, one dot starting at
\* position 0.
C11_WalkFromDotZero ==
    (pc = "autoConnect" /\ tickerFires \in 1..8)
        => /\ dotsArg = <<1, 2, 4, 8, 4, 2, 1, 2>>[tickerFires]
           /\ timeArg.Hour = apPasscode[1] * 10 + apPasscode[2]
           /\ timeArg.Minute = apPasscode[3] * 10 + apPasscode[4]
           /\ displaySerialStream \cap LedLines = {}

\* C11 as amended: the n-th timer callback after boot shows the passcode as
\* hour and minute with the colon off and the dot masks 0b0010, 0b0100,
\* 0b1000, 0b0100, 0b0010, 0b0001, 0b0010, 0b0100, one dot starting at
\* position 1, walking up, reversing at position 3 and at position 0.
C11_WalkFromDotOne ==
    (pc = "autoConnect" /\ tickerFires >= 1)
        => /\ tickerFires <= 8 => dotsArg = <<2, 4, 8, 4, 2, 1, 2, 4>>[tickerFires]
           /\ dotsArg = 2 ^ WalkPosition(1, tickerFires)
           /\ currentDot = WalkPosition(1, tickerFires)
           /\ timeArg.Hour = apPasscode[1] * 10 + apPasscode[2]
           /\ timeArg.Minute = apPasscode[3] * 10 + apPasscode[4]
           /\ timeArg.Second = 0
           /\ displaySerialStream \cap LedLines = {}
           /\ displaySerialStream \cap DotLines = {dotsPinmap[WalkPosition(1, tickerFires)]}

\* C11 witness: the eighth callback showed passcode 4270 as 42:70 with the
\* dot at position 2, after the walk reversed at 3 and at 0.
C11_Witness ==
    /\ pc = "autoConnect"
    /\ tickerFires = 8
    /\ apPasscode = <<4, 2, 7, 0>>
    /\ timeArg.Hour = 42
    /\ timeArg.Minute = 70
    /\ dotsArg = 4
    /\ direction

\* the positions of the main control flow outside the blocking autoConnect()
MainFlowPositions == {"displayTest", "syncing", "running", "rebootWait"}

\* the step wrote the frame slot, the PWM counters or the register lines
DisplayWritten ==
    \/ displaySerialStream' # displaySerialStream
    \/ digitPwmCounter' # digitPwmCounter
    \/ ledPwmCounter' # ledPwmCounter
    \/ shiftReg' # shiftReg
    \/ latchPin' # latchPin

\* C12: the animation timer is attached only while setup() blocks in
\* autoConnect(): not during the self-test, the first timezone renewal, the
\* main loop or the wait for the restart; a timer callback runs only there,
\* and every write of the main control flow to the frame slot, the PWM
\* counters or the register lines happens with the timer detached.
C12_TimerOnlyWhileProvisioning ==
    [][/\ tickerAttached => pc = "autoConnect"
       /\ tickerAttached' => pc' = "autoConnect"
       /\ tickerFires' > tickerFires
            => (pc = "autoConnect" /\ pc' = "autoConnect" /\ tickerAttached)
       /\ (pc \in MainFlowPositions /\ DisplayWritten) => ~tickerAttached
      ]_vars

\* C12 witness: the main loop completed a per-second update after the timer
\* had run callbacks and was detached.
C12_Witness ==
    /\ pc = "running"
    /\ UpdateCompleted
    /\ tickerFires >= 2
    /\ ~tickerAttached
    /\ currentDot = 2

\* C13: dots share the digit PWM phase: after every updateDisplay() call that
\* cleared the digit bits (digitPwmCounter >= digitBrightness) the dot lines
\* are dark as well, and after every call that kept the digit bits the dot
\* lines show the dots of the frame.
C13_DotsShareDigitPhase ==
    (pc = "pwm" /\ nTicks > 0)
        => /\ ~log[1].dk => outputs \cap DotLines = {}
           /\ log[1].dk => outputs \cap DotLines = displaySerialStream \cap DotLines

\* the position of the first event `name` in the log l (0 when there is none)
Position(l, name) ==
    IF Logged(l, name) THEN CHOOSE i \in 1..Len(l) : l[i].ev = name /\ \A j \in 1..(i - 1) : l[j].ev # name
    ELSE 0

\* C14: in every completed per-second update both brightness levels are set
\* to maxBrightness first, a renewal (if any) comes next, then the new display
\* state is composed and written to the frame slot exactly once, and the
\* brightness policy is applied only after that; every emission between the
\* composition and the policy runs with both levels at maxBrightness.
C14_UpdateOrder ==
    UpdateCompleted
        => /\ Position(log, "maxBrightness") = 1
           /\ log[1].db = maxBrightness /\ log[1].lb = maxBrightness
           /\ Position(log, "maxBrightness") < Position(log, "compose")
           /\ Position(log, "compose") < Position(log, "policy")
           /\ Logged(log, "renew")
                 => /\ Position(log, "maxBrightness") < Position(log, "renew")
                    /\ Position(log, "renew") < Position(log, "compose")
           /\ Cardinality({i \in 1..Len(log) : log[i].ev = "compose"}) = 1
           /\ \A i \in 1..Len(log) :
                 (Position(log, "compose") <= i /\ i < Position(log, "policy"))
                     => (log[i].db = maxBrightness /\ log[i].lb = maxBrightness)
           /\ \E i \in 1..Len(log) :
                 /\ Position(log, "compose") < i /\ i < Position(log, "policy")
                 /\ log[i].ev = "emit"
           /\ displaySerialStream = setDisplayStream(breakTime(currentTime), 0)

\* C14 witness: an update at night was preceded by a renewal, emitted the new
\* frame at maxBrightness and then lowered both levels to 10.
C14_Witness ==
    /\ UpdateCompleted
    /\ Logged(log, "renew")
    /\ Len(log) = 8
    /\ log[5].ev = "emit" /\ log[5].db = 50
    /\ log[7].ev = "policy" /\ log[7].db = 10
    /\ digitBrightness = 10

\* the step ran the head of a per-second update: the levels were forced and
\* updateDisplay() was called
ForcedUpdateRan == pc = "running" /\ Logged(log', "maxBrightness")

\* C15: the frame latched by the forced updateDisplay() at the head of a
\* per-second update has its digit bits and its colon bits unmasked, for every
\* value of the PWM counters; so the registers that stay latched through a
\* failed renewal's 5 s wait show the digits and the colon of the frame.
C15_ForcedUpdateLit ==
    [][ForcedUpdateRan
          => /\ log'[2].ev = "emit" /\ log'[2].dk /\ log'[2].lk
             /\ pc' = "rebootWait"
                   => /\ outputs' \cap DigitLines = displaySerialStream \cap DigitLines
                      /\ outputs' \cap LedLines = displaySerialStream \cap LedLines
       ]_vars

\* C16 (latch protocol): every emission drives the latch low before its first
\* clock pulse, keeps it low through all 48 pulses and drives it high once
\* after the last; the register outputs stay as they are during the pulses
\* and change only on that rising edge, to the whole masked frame.
C16_LatchProtocol ==
    [][/\ pc' = "shiftOut" => latchPin' = "LOW"
       /\ (pc # "shiftOut" /\ pc' = "shiftOut") => (clockPulses' = 0 /\ latchRises' = 0)
       /\ clockPulses' = clockPulses + 1
            => (latchPin = "LOW" /\ latchPin' = "LOW" /\ outputs' = outputs)
       /\ latchPin' # latchPin /\ latchPin' = "HIGH"
            => /\ clockPulses = numChips * 8
               /\ latchRises' = 1
               /\ outputs' \cap OutputLines = maskedStream \cap OutputLines
               /\ outputs' \subseteq OutputLines
       /\ outputs' # outputs => (latchPin = "LOW" /\ latchPin' = "HIGH")
       /\ pc' = "emitted"
            => (latchPin' = "HIGH" /\ latchRises' = 1 /\ clockPulses' = numChips * 8)
      ]_vars

\* C16 witness: the second emission in a row has ended; it found the latch
\* high, shifted 48 bits and raised the latch once.
C16_Witness ==
    /\ pc = "emitted"
    /\ nTicks = 2
    /\ clockPulses = 48
    /\ latchRises = 1
    /\ latchPin = "HIGH"
    /\ displaySerialStream = PwmFrame
    /\ outputs = maskedStream

\* the frame the self-test is to show as its k-th (k in 1..20): all four
\* digits show i, which counts 0..9 and then 9..0, all dots on odd i, the
\* colon in the second half
SelfTestFrame(k) ==
    LET i == IF k <= 10 THEN k - 1 ELSE 20 - k
    IN  {digitsPinmap[d][i] : d \in 0..3}
            \cup (IF i % 2 = 1 THEN DotLines ELSE {})
            \cup (IF k > 10 THEN LedLines ELSE {})

\* C17: the self-test at power-on latches exactly 20 frames: HH = MM = ii for
\* i = 0..9 with the colon off, then for i = 9..0 with the colon on, all four
\* dots lit on odd i and none on even i; every frame is latched unmasked, and
\* together the 20 frames light each of the 40 numeral cathodes, each dot and
\* both colon LEDs.
C17_SelfTestFrames ==
    (pc = "displayTest" /\ testStep > 0)
        => /\ testStep <= 20
           /\ digitPwmCounter = testStep
           /\ LET i == IF testStep <= 10 THEN testStep - 1 ELSE 20 - testStep
              IN  /\ timeArg.Hour = 11 * i
                  /\ timeArg.Minute = 11 * i
                  /\ timeArg.Second = (IF testStep <= 10 THEN 0 ELSE 1)
                  /\ dotsArg = (IF i % 2 = 1 THEN 15 ELSE 0)
           /\ displaySerialStream = SelfTestFrame(testStep)
           /\ outputs = displaySerialStream
           /\ latchPin = "HIGH"
           /\ UNION {SelfTestFrame(k) : k \in 1..20} = DigitLines \cup DotLines \cup LedLines
           /\ \A line \in DigitLines : Cardinality({k \in 1..20 : line \in SelfTestFrame(k)}) = 2

\* C17 witness: the self-test has latched its 20th frame, 00:00 with the
\* colon lit and no dot, in the 20th emission since the start.
C17_Witness ==
    /\ pc = "displayTest"
    /\ testStep = 20
    /\ outputs = {digitsPinmap[d][0] : d \in 0..3} \cup LedLines
    /\ digitPwmCounter = 20

\* the step is a loop() iteration in which the per-second update ran
UpdateRan == pc = "running" /\ Logged(log', "maxBrightness")

\* C18 as claimed: a per-second update runs in a loop() iteration iff the
\* time read is strictly greater than lastUpdate; so lastUpdate never
\* decreases while the program runs, also when the time source steps back.
C18_UpdateIffLater ==
    [][pc = "running"
          => /\ UpdateRan <=> currentTime' > lastUpdate
             /\ pc' = "running" => lastUpdate' >= lastUpdate]_vars

\* C18 as amended: a per-second update runs in a loop() iteration iff the
\* time read differs from lastUpdate; an update that completes sets
\* lastUpdate to the time read, an iteration without a completed update
\* leaves it; so lastUpdate never decreases as long as the time read does
\* not fall below it, and follows the time source when it steps back.
C18_UpdateIffChanged ==
    [][pc = "running"
          => /\ UpdateRan <=> currentTime' # lastUpdate
             /\ (UpdateRan /\ pc' = "running") => lastUpdate' = currentTime'
             /\ (~UpdateRan \/ pc' # "running") => lastUpdate' = lastUpdate
             /\ currentTime' >= lastUpdate => lastUpdate' >= lastUpdate
             /\ (currentTime' < lastUpdate /\ pc' = "running") => lastUpdate' < lastUpdate]_vars

\* C18 witness: an update completed for the time 0, read after the time
\* source stepped back from a later second that had been shown.
C18_Witness ==
    /\ UpdateCompleted
    /\ currentTime = 0
    /\ lastUpdate = 0
    /\ renewed
    /\ tzInfo.validUntil = FarZoneEnd

\* how many events `name` the log l holds
Count(l, name) == Cardinality({i \in 1..Len(l) : l[i].ev = name})

\* a loop() iteration that read the time lastUpdate holds: nothing but one
\* emission happens
IdleIterationLaw ==
    (pc = "running" /\ currentTime' = lastUpdate)
        => /\ displaySerialStream' = displaySerialStream
           /\ digitBrightness' = digitBrightness
           /\ ledBrightness' = ledBrightness
           /\ tzInfo' = tzInfo
           /\ lastUpdate' = lastUpdate
           /\ Count(log', "emit") = 1 /\ Len(log') = 1
           /\ digitPwmCounter' = (digitPwmCounter + 1) % (maxBrightness + 1)
           /\ ledPwmCounter' = (ledPwmCounter + 1) % (maxBrightness + 1)
           /\ outputs' = MaskedStream(displaySerialStream, digitBrightness, ledBrightness,
                                      digitPwmCounter, ledPwmCounter)

\* C19 as claimed: a loop() iteration that reads the time lastUpdate holds
\* leaves the frame slot, both brightness levels, the lease and lastUpdate
\* unchanged and makes exactly one emission, each PWM counter advancing by
\* one; an iteration in which a per-second update runs writes the frame slot
\* exactly once.
C19_OneWritePerUpdate ==
    [][/\ IdleIterationLaw
       /\ UpdateRan => Count(log', "compose") = 1]_vars

\* C19 as amended: the idle iteration as claimed; an iteration in which a
\* per-second update runs to its end writes the frame slot exactly once, with
\* the frame of the time read, and one whose renewal fails does not write it
\* and ends in the restart.
C19_OneWritePerCompletedUpdate ==
    [][/\ IdleIterationLaw
       /\ (UpdateRan /\ pc' = "running")
            => /\ Count(log', "compose") = 1
               /\ displaySerialStream' = setDisplayStream(breakTime(currentTime'), 0)
               /\ Count(log', "emit") = 3
       /\ (UpdateRan /\ pc' # "running")
            => /\ pc' = "rebootWait"
               /\ Count(log', "compose") = 0
               /\ displaySerialStream' = displaySerialStream
               /\ Count(log', "emit") = 1]_vars

\* C19 witness: an idle iteration at night made one emission with the
\* counters going from 50 to 0 and the levels staying at 10.
C19_Witness ==
    /\ pc = "running"
    /\ currentTime = lastUpdate
    /\ Len(log) = 1 /\ log[1].ev = "emit" /\ log[1].db = 10
    /\ digitPwmCounter = 0
    /\ digitBrightness = 10
    /\ renewed

\* C20: in every reachable state, after any self-test frames, timer
\* callbacks, per-second updates and PWM ticks, digitPwmCounter and
\* ledPwmCounter are both in 0..maxBrightness and equal to each other.
C20_CountersInLockstep ==
    /\ digitPwmCounter \in 0..maxBrightness
    /\ ledPwmCounter \in 0..maxBrightness
    /\ digitPwmCounter = ledPwmCounter

\* C20 witness: both counters stand at maxBrightness in the main loop, after
\* the self-test, timer callbacks and a per-second update.
C20_Witness ==
    /\ pc = "running"
    /\ tickerFires > 0
    /\ lastUpdate > 0
    /\ digitPwmCounter = maxBrightness
    /\ ledPwmCounter = maxBrightness

====
